---- MODULE Spec2Model ----
(***************************************************************************)
(* A model of the compile / link / resolve engine of Tiny Shading Language *)
(* (src/tsl_lib/compiler/compiler_impl.cpp).                               *)
(*                                                                         *)
(* Pointers are modelled by values that have a distinguished null:         *)
(*   - a module pointer is a heap index, 0 is the null pointer;            *)
(*   - a llvm::Function* is the pair [mod, name], NullFunction is null;    *)
(*   - a ShaderUnitTemplate pointer is the template's id, "" is null.      *)
(* A call that dereferences a null pointer does not return: its outcome is *)
(* the pseudo status "Crash".  A read past the end of a vector either      *)
(* crashes or yields a garbage value; the action draws the outcome.        *)
(***************************************************************************)
EXTENDS Integers, Sequences, FiniteSets, TLC

VARIABLES
    m_shader_units,             \* ShaderGroupTemplate_Impl: instance name -> ShaderUnitTemplateCopy
    m_shader_unit_connections,  \* dst instance -> (dst arg -> <<src instance, src arg>>)
    m_input_args,               \* instance -> (arg -> index of the group argument)
    m_output_args,              \* instance -> (arg -> index of the group argument)
    m_shader_input_defaults,    \* instance -> (arg -> ShaderUnitInputDefaultValue)
    m_root_shader_unit_name,    \* name of the root instance, "" when not set
    tpl,                        \* template id -> ShaderUnitTemplate (unit data and flags)
    heap,                       \* the llvm::Module objects ever allocated, by index
    inst,                       \* shader instance id -> ShaderInstance data
    driver,                     \* the compile driver (TslCompiler_Impl) private state
    nops,                       \* number of operations performed so far
    hist,                       \* what compile() and resolve(group) have done to U3 and to the group so far
    last,                       \* the last operation: its inputs, its status, the state before it
    reg,                        \* the ClosureRegister and the threads that call it
    arena,                      \* the AST nodes and g_tsl_memory_janitor_stack of every thread
    par                         \* threads that compile at the same time, each with its driver and template

\* the state of the compiler, the templates, the group and the instances
compiler_vars == << m_shader_units, m_shader_unit_connections, m_input_args, m_output_args,
                    m_shader_input_defaults, m_root_shader_unit_name, tpl, heap, inst, driver,
                    nops, hist, last >>

\* the state of the services beside the compiler
service_vars == << reg, arena, par >>

vars == << compiler_vars, service_vars >>

group_vars == << m_shader_units, m_shader_unit_connections, m_input_args, m_output_args,
                 m_shader_input_defaults, m_root_shader_unit_name >>

-----------------------------------------------------------------------------
(* Bounds of the model *)

\* operations in one behaviour
MaxOps == 3
\* resolve(group) calls in one behaviour of the graph and argument specifications
MaxGroupResolves == 1
\* register_closure_type calls in one behaviour of the register specification
MaxRegisters == 4
\* AST nodes allocated, nested regions of one thread, and janitor operations in one
\* behaviour of the janitor specification
MaxNodes == 3
MaxDepth == 2
MaxArenaOps == 6
\* compile calls in one behaviour of the specification of compiling threads
MaxParCompiles == 3

-----------------------------------------------------------------------------
(* Statuses, types *)

Succeed == "Succeed"
InvalidInput == "InvalidInput"
InvalidShaderGroupTemplate == "InvalidShaderGroupTemplate"
ShaderGroupWithoutRoot == "ShaderGroupWithoutRoot"
ShaderGroupWithCycles == "ShaderGroupWithCycles"
UndefinedShaderUnit == "UndefinedShaderUnit"
ArgumentWithoutInitialization == "ArgumentWithoutInitialization"
InvalidArgType == "InvalidArgType"
LLVMFunctionVerificationFailed == "LLVMFunctionVerificationFailed"
\* not a status: the call dereferenced a null pointer and never returned
Crash == "Crash"

\* outcomes of a read outside an object
UBOutcomes == {"crash", "garbage"}

\* the result of llvm_type_from_arg_type for an unsupported type
NullType == "nullptr"

llvm_type_from_arg_type(type) ==
    CASE type = "closure" -> "i32*"
      [] type = "int"     -> "i32"
      [] type = "float"   -> "float"
      [] type = "bool"    -> "i1"
      [] type = "double"  -> "double"
      [] type = "float3"  -> "%float3"
      [] type = "float4"  -> "%float4"
      [] OTHER            -> NullType

-----------------------------------------------------------------------------
(* Names *)

\* the group template and the unit templates
GroupId == "G"
UnitIds == {"U1", "U2", "U3"}
TemplateIds == UnitIds \cup {GroupId}
NullTemplate == ""

\* instance names a group may use; Ghost is never a key of m_shader_units at Init
InstNames == {"r", "a", "b"}
Ghost == "g"
ArgNames == {"x", "z", "y"}

NullModule == 0
NullFunction == [mod |-> 0, name |-> ""]

\* the closure module of the global module (owned by the shading context)
ClosureModule == -1

Arg(n, t, o) == [m_name |-> n, m_type |-> t, m_is_output |-> o]

\* a default constructed ShaderUnitTemplateCopy, as std::map::operator[] makes one
DefaultCopy == [m_name |-> "", m_shader_unit_template |-> NullTemplate]

\* the orders in which a container of these keys may be iterated
Orders(S) == { s \in [1..Cardinality(S) -> S] : \A i, j \in 1..Cardinality(S) : i # j => s[i] # s[j] }

RECURSIVE SelectIn(_, _)
SelectIn(seq, S) ==
    IF seq = <<>> THEN <<>>
    ELSE IF Head(seq) \in S THEN <<Head(seq)>> \o SelectIn(Tail(seq), S)
         ELSE SelectIn(Tail(seq), S)

-----------------------------------------------------------------------------
(* generate_shader_source: the depth first traversal that emits the calls *)

Ret(st, status) == [st EXCEPT !.ret = status]

\* a traversal that keeps no stack of the instances being visited
CycleDetected_NoStack(being_visited, shader_unit_copy_name) == FALSE

\* line 439: the instance is on the traversal stack
CycleDetected(being_visited, shader_unit_copy_name) ==
    shader_unit_copy_name \in being_visited

\* a traversal that does not remember the instances it generated
AlreadyVisited_NoMemo(visited, shader_unit_copy_name) == FALSE

\* line 443: code was generated for the instance already
AlreadyVisited(visited, shader_unit_copy_name) ==
    shader_unit_copy_name \in visited

\* line 458: the test made before a dependency is looked up; it counts the
\* instance being generated, not the dependency
UndefinedUnitTest(units, shader_unit_copy_name, dep_shader_unit_name) ==
    shader_unit_copy_name \notin DOMAIN units

\* line 461: m_shader_units[dep_shader_unit_name], which adds a default entry for a missing key
UnitsAfterLookup(units, key) ==
    IF key \in DOMAIN units THEN units
    ELSE [k \in DOMAIN units \cup {key} |-> IF k = key THEN DefaultCopy ELSE units[k]]

Lookup(f, k1, k2) == k1 \in DOMAIN f /\ k2 \in DOMAIN f[k1]

\* lines 523-542: the constant made from a default value, by the type the default carries
DefaultConstant(var) ==
    CASE var.m_type = "int"    -> [kind |-> "const", inst |-> "", arg |-> "", idx |-> 0, ty |-> "i32"]
      [] var.m_type = "float"  -> [kind |-> "const", inst |-> "", arg |-> "", idx |-> 0, ty |-> "float"]
      [] var.m_type = "double" -> [kind |-> "const", inst |-> "", arg |-> "", idx |-> 0, ty |-> "double"]
      [] var.m_type = "bool"   -> [kind |-> "const", inst |-> "", arg |-> "", idx |-> 0, ty |-> "i1"]
      [] var.m_type = "float3" -> [kind |-> "const", inst |-> "", arg |-> "", idx |-> 0, ty |-> "%float3"]
      [] OTHER                 -> [kind |-> "null",  inst |-> "", arg |-> "", idx |-> 0, ty |-> ""]

Value(k, i, a, n) == [kind |-> k, inst |-> i, arg |-> a, idx |-> n, ty |-> ""]

\* lines 475-557: one input argument.  g.nargs is args.size(), the number of wrapper arguments.
InputArg(g, st, name, arg) ==
    IF Lookup(g.connections, name, arg.m_name)
    THEN LET source == g.connections[name][arg.m_name] IN
         IF <<source[1], source[2]>> \in st.var_mapping
         THEN [st EXCEPT !.callee_args = Append(@, Value("load", source[1], source[2], 0))]
         ELSE Ret(st, Crash)                           \* CreateLoad of a null slot
    ELSE IF Lookup(g.input_args, name, arg.m_name)
    THEN LET i == g.input_args[name][arg.m_name] IN
         IF i < g.nargs
         THEN [st EXCEPT !.callee_args = Append(@, Value("arg", "", "", i))]
         ELSE IF g.ub = "crash" THEN Ret(st, Crash)
              ELSE [st EXCEPT !.callee_args = Append(@, Value("garbage", "", "", i))]
    ELSE IF llvm_type_from_arg_type(arg.m_type) = NullType
    THEN Ret(st, InvalidArgType)
    ELSE IF Lookup(g.defaults, name, arg.m_name)
            /\ DefaultConstant(g.defaults[name][arg.m_name]).kind # "null"
    THEN [st EXCEPT !.callee_args = Append(@, DefaultConstant(g.defaults[name][arg.m_name]))]
    ELSE Ret(st, ArgumentWithoutInitialization)

\* lines 559-583: one output argument
OutputArg(g, st, name, arg) ==
    IF Lookup(g.output_args, name, arg.m_name)
    THEN LET i == g.output_args[name][arg.m_name] IN
         IF i < g.nargs
         THEN [st EXCEPT !.callee_args = Append(@, Value("arg", "", "", i))]
         ELSE IF g.ub = "crash" THEN Ret(st, Crash)
              ELSE [st EXCEPT !.callee_args = Append(@, Value("garbage", "", "", i))]
    ELSE IF llvm_type_from_arg_type(arg.m_type) = NullType
    THEN Ret(st, Crash)                                \* CreateAlloca of a null type
    ELSE [st EXCEPT !.var_mapping = @ \cup {<<name, arg.m_name>>},
                    !.callee_args = Append(@, Value("alloca", name, arg.m_name, 0))]

\* lines 470-584: the loop over the exposed arguments of the unit
RECURSIVE CalleeArgs(_, _, _, _)
CalleeArgs(g, st, name, exposed_args) ==
    IF exposed_args = <<>> \/ st.ret # Succeed THEN st
    ELSE LET arg == Head(exposed_args)
             st1 == IF ~arg.m_is_output THEN InputArg(g, st, name, arg)
                    ELSE OutputArg(g, st, name, arg)
         IN CalleeArgs(g, st1, name, Tail(exposed_args))

RECURSIVE generate_shader_source(_, _, _)
RECURSIVE Dependencies(_, _, _, _)

\* lines 454-465: the loop over the connections of the instance, in the map's order
Dependencies(g, st, shader_unit_copy_name, deps) ==
    IF deps = <<>> THEN st
    ELSE LET dep_shader_unit_name == g.connections[shader_unit_copy_name][Head(deps)][1] IN
         IF UndefinedUnitTest(st.units, shader_unit_copy_name, dep_shader_unit_name)
         THEN Ret(st, UndefinedShaderUnit)
         ELSE LET units1 == UnitsAfterLookup(st.units, dep_shader_unit_name)
                  st1 == generate_shader_source(g, [st EXCEPT !.units = units1],
                                                units1[dep_shader_unit_name])
              IN IF st1.ret # Succeed THEN st1
                 ELSE Dependencies(g, st1, shader_unit_copy_name, Tail(deps))

\* the call is put in front of the calls emitted so far
CreateCall_First(calls, call) == << call >> \o calls

\* line 590: builder->CreateCall emits the call at the insertion point, the end of the block
CreateCall(calls, call) == Append(calls, call)

\* lines 433-598
generate_shader_source(g, st, suc) ==
    LET shader_unit_copy_name == suc.m_name
        su == suc.m_shader_unit_template
    IN
    IF CycleDetected(st.being_visited, shader_unit_copy_name) THEN Ret(st, ShaderGroupWithCycles)
    ELSE IF AlreadyVisited(st.visited, shader_unit_copy_name) THEN Ret(st, Succeed)
    ELSE
      LET st1 == [st EXCEPT !.being_visited = @ \cup {shader_unit_copy_name},
                            !.visited = @ \cup {shader_unit_copy_name}]
          deps == IF shader_unit_copy_name \in DOMAIN g.connections
                  THEN SelectIn(g.arg_order, DOMAIN g.connections[shader_unit_copy_name])
                  ELSE <<>>
          st2 == Dependencies(g, st1, shader_unit_copy_name, deps)
      IN
      IF st2.ret # Succeed THEN st2
      ELSE IF su = NullTemplate THEN Ret(st2, Crash)   \* su-> of a null template
      ELSE
        LET st3 == CalleeArgs(g, [st2 EXCEPT !.callee_args = <<>>], shader_unit_copy_name,
                              g.exposed_args[su])
            callee == IF su \in DOMAIN g.function_mapping THEN g.function_mapping[su] ELSE ""
        IN
        IF st3.ret # Succeed THEN st3
        ELSE IF callee = "" THEN Ret(st3, Crash)       \* CreateCall of a null function
        ELSE [st3 EXCEPT
                !.calls = CreateCall(@, [inst |-> shader_unit_copy_name, unit |-> su, callee |-> callee,
                                         args |-> Append(st3.callee_args, Value("tsl_global", "", "", 0))]),
                !.being_visited = @ \ {shader_unit_copy_name}]

-----------------------------------------------------------------------------
(* Modules and templates *)

\* std::make_unique<llvm::Module>(name, context): an empty module
NewModule(name) ==
    [alive |-> TRUE, name |-> name, protos |-> {}, fn |-> "", ir |-> "raw", broken |-> FALSE,
     calls |-> <<>>, functions |-> <<>>, created |-> 0]

\* the unique_ptr that held module m lets go of it: the module is destroyed
Destroy(h, m) == IF m = NullModule THEN h ELSE [h EXCEPT ![m].alive = FALSE]

\* TslCompiler_Impl::reset, lines 88-93
reset(d) == [d EXCEPT !.m_scanner = FALSE, !.m_ast_root = "", !.m_closures_in_shader = {}]

\* a root test that only asks whether a root name was set
RootMissing_EmptyOnly(units, root) == root = ""

\* line 285-290: the root is not set, or is not one of the units
RootMissing(units, root) == root = "" \/ root \notin DOMAIN units

\* every unit declares a prototype of its own
PrototypeDeclared_Never(visited_module, shader_unit) == FALSE

\* line 332: visited_module.count(shader_unit)
PrototypeDeclared(visited_module, shader_unit) == shader_unit \in DOMAIN visited_module

\* lines 320-373, one shader unit of the loop that declares the prototypes.
\* p.function_mapping is shader_unit_llvm_function, p.visited_module the map of line 317.
DeclareUnit(p, wrapper, ub) ==
    LET shader_unit_name == wrapper.m_name
        shader_unit == wrapper.m_shader_unit_template
    IN
    IF shader_unit = NullTemplate THEN [p EXCEPT !.ret = Crash]
    ELSE
      LET p1 == [p EXCEPT !.dependencies = @ \cup tpl[shader_unit].m_dependencies]
          params == tpl[shader_unit].m_exposed_args
          null_out == \E i \in DOMAIN params :
                         params[i].m_is_output /\ llvm_type_from_arg_type(params[i].m_type) = NullType
          null_in == \E i \in DOMAIN params :
                         ~params[i].m_is_output /\ llvm_type_from_arg_type(params[i].m_type) = NullType
      IN
      IF PrototypeDeclared(p1.visited_module, shader_unit)
      THEN [p1 EXCEPT !.function_mapping =
                 [k \in DOMAIN @ \cup {shader_unit_name} |->
                     IF k = shader_unit_name THEN p1.visited_module[shader_unit] ELSE @[k]]]
      ELSE IF null_out THEN [p1 EXCEPT !.ret = Crash]          \* raw_type->getPointerTo()
      ELSE IF null_in /\ ub = "crash" THEN [p1 EXCEPT !.ret = Crash]  \* FunctionType::get
      ELSE [p1 EXCEPT
              !.protos = @ \cup {shader_unit},
              !.created = @ + 1,                                \* line 353: Function::Create
              !.function_mapping =
                 [k \in DOMAIN @ \cup {shader_unit} |-> IF k = shader_unit THEN shader_unit ELSE @[k]],
              !.visited_module =
                 [k \in DOMAIN @ \cup {shader_unit} |-> IF k = shader_unit THEN shader_unit ELSE @[k]]]

RECURSIVE DeclareUnits(_, _, _, _)
DeclareUnits(p, units, order, ub) ==
    IF order = <<>> \/ p.ret # Succeed THEN p
    ELSE DeclareUnits(DeclareUnit(p, units[Head(order)], ub), units, Tail(order), ub)

\* lines 375-395: the prototype of the wrapper from the group's exposed arguments
WrapperPrototype(args, ub) ==
    IF \E i \in DOMAIN args : args[i].m_is_output /\ llvm_type_from_arg_type(args[i].m_type) = NullType
    THEN Crash
    ELSE IF (\E i \in DOMAIN args : llvm_type_from_arg_type(args[i].m_type) = NullType) /\ ub = "crash"
    THEN Crash
    ELSE Succeed

WrapperName(name) == name \o "_shader_wrapper"

-----------------------------------------------------------------------------
(* The record of the last operation *)

NoModuleContent == [alive |-> FALSE, name |-> "", protos |-> {}, fn |-> "", ir |-> "", broken |-> FALSE,
                    calls |-> <<>>, functions |-> <<>>, created |-> 0]

ModuleContent(h, m) == IF m = NullModule THEN NoModuleContent ELSE h[m]

NullEngine == [null |-> TRUE, module |-> NoModuleContent, added |-> {}]

FreshInstance == [m_fpm |-> "null", fpm_module |-> "none", m_execution_engine |-> NullEngine,
                  m_function_pointer |-> 0]

\* op, its target template and instance, its status, and what the target was before it
Record(op, t, i, ret) ==
    [op |-> op, target |-> t, instance |-> i, ret |-> ret,
     pre_tpl |-> IF t \in DOMAIN tpl THEN tpl[t] ELSE tpl[GroupId],
     pre_mod |-> ModuleContent(heap, tpl[IF t \in DOMAIN tpl THEN t ELSE GroupId].m_module),
     pre_units |-> m_shader_units,
     pre_inst |-> IF i \in DOMAIN inst THEN inst[i] ELSE FreshInstance,
     n_modules |-> Len(heap)]

Running == nops < MaxOps /\ last.ret # Crash

-----------------------------------------------------------------------------
(* resolve of a ShaderGroupTemplate, lines 271-431 *)

\* sg is the pointer passed: "null", "nodata" (a group whose unit data is null) or GroupId
ResolveGroup(sg, unit_order, arg_order, ub) ==
    /\ Running
    /\ nops' = nops + 1
    /\ driver' = reset(driver)
    /\ inst' = inst
    /\ UNCHANGED << m_shader_unit_connections, m_input_args, m_output_args,
                    m_shader_input_defaults, m_root_shader_unit_name, service_vars >>
    /\ IF sg # GroupId
       THEN /\ last' = Record("resolve_group", sg, "", InvalidInput)
            /\ UNCHANGED << m_shader_units, tpl, heap >>
       ELSE IF RootMissing(m_shader_units, m_root_shader_unit_name)
       THEN /\ last' = Record("resolve_group", sg, "", ShaderGroupWithoutRoot)
            /\ UNCHANGED << m_shader_units, tpl, heap >>
       ELSE
         LET su_pvt == tpl[GroupId]
             units1 == UnitsAfterLookup(m_shader_units, m_root_shader_unit_name)   \* line 297
             root_shader == units1[m_root_shader_unit_name]
             module == Len(heap) + 1
             p == DeclareUnits([ret |-> Succeed,
                                dependencies |-> su_pvt.m_dependencies \cup {ClosureModule},
                                protos |-> {},
                                created |-> 0,
                                visited_module |-> [k \in {} |-> ""],
                                function_mapping |-> [k \in {} |-> ""]],
                               units1, SelectIn(unit_order, DOMAIN units1), ub)
             args == su_pvt.m_exposed_args
             proto == IF p.ret # Succeed THEN p.ret ELSE WrapperPrototype(args, ub)
             func_name == WrapperName(su_pvt.m_name)
             g == [connections |-> m_shader_unit_connections, input_args |-> m_input_args,
                   output_args |-> m_output_args, defaults |-> m_shader_input_defaults,
                   nargs |-> Len(args), ub |-> ub, arg_order |-> arg_order,
                   exposed_args |-> [u \in UnitIds |-> tpl[u].m_exposed_args],
                   function_mapping |-> p.function_mapping]
             st0 == [units |-> units1, visited |-> {}, being_visited |-> {},
                     var_mapping |-> {}, calls |-> <<>>, callee_args |-> <<>>, ret |-> Succeed]
             st == IF proto # Succeed THEN Ret(st0, proto)
                   ELSE generate_shader_source(g, st0, root_shader)
             wrapper == [NewModule(su_pvt.m_name) EXCEPT
                            !.protos = p.protos,
                            !.created = p.created,
                            !.fn = IF proto = Succeed THEN func_name ELSE "",
                            !.calls = st.calls,
                            !.broken = st.ret # Succeed]
         IN
         /\ last' = Record("resolve_group", sg, "", st.ret)
         /\ m_shader_units' = st.units
         /\ heap' = Append(Destroy(heap, su_pvt.m_module), wrapper)
         /\ tpl' = [tpl EXCEPT ![GroupId] =
                       [@ EXCEPT !.m_module = module,
                                 !.m_dependencies = p.dependencies,
                                 !.m_llvm_function =
                                     IF st.ret = Succeed THEN [mod |-> module, name |-> func_name] ELSE @,
                                 !.m_root_function_name =
                                     IF st.ret = Succeed THEN func_name ELSE @]]
    /\ hist' = IF sg = GroupId
               THEN [hist EXCEPT !.group_resolves = @ + 1, !.group_failed = last'.ret # Succeed]
               ELSE hist

-----------------------------------------------------------------------------
(* resolve of a ShaderInstance, lines 211-269 *)

\* a template test that rejects only a template with neither module nor root function
InvalidTemplate_Neither(t) == t.m_module = NullModule /\ t.m_llvm_function = NullFunction

\* line 220: the template has no module or no root function
InvalidTemplate(t) == t.m_module = NullModule \/ t.m_llvm_function = NullFunction

\* what a llvm::Function* points at; nothing for the null pointer
FunctionContent(h, f) == IF f.mod \in DOMAIN h THEN h[f.mod] ELSE NoModuleContent

\* the function a llvm::Function* points at is gone: its module was destroyed
Dangling(h, f) == f.mod \in DOMAIN h /\ ~h[f.mod].alive

\* the engine is given an empty module instead of a copy
CloneModule_Empty(h, m) == NoModuleContent

\* llvm::CloneModule: a copy of the module's content
CloneModule(h, m) == h[m]

\* lines 232-242: instruction combining, reassociation, GVN and CFG simplification
RunPasses(ir) == "opt"

\* lines 229-242: the pass manager is made for the clone and run on the function
\* m_llvm_function points at, which is the template's own
OptimizedHeap(h, f) == IF f.mod \in DOMAIN h THEN [h EXCEPT ![f.mod].ir = RunPasses(@)] ELSE h

\* llvm::verifyFunction: TRUE when the function is broken, FALSE when it has no error
verifyFunction(h, f) == FunctionContent(h, f).broken

\* line 246
VerificationFailed(allow_verification, h, f) == allow_verification /\ ~verifyFunction(h, f)

\* si is "null" or the template the instance was made from; engine_ok and symbol_found are
\* the outcomes of EngineBuilder::create and of getFunctionAddress
ResolveInstance(si, engine_ok, symbol_found, ub) ==
    /\ Running
    /\ nops' = nops + 1
    /\ UNCHANGED << group_vars, driver, hist, service_vars >>
    /\ IF si = "null"
       THEN /\ last' = Record("resolve_instance", si, si, InvalidInput)
            /\ UNCHANGED << tpl, heap, inst >>
       ELSE
         LET shader_template_data == tpl[si]
             f == shader_template_data.m_llvm_function
         IN
         IF InvalidTemplate(shader_template_data)
         THEN /\ last' = Record("resolve_instance", si, si, InvalidShaderGroupTemplate)
              /\ UNCHANGED << tpl, heap, inst >>
         ELSE
           LET cloned_module == CloneModule(heap, shader_template_data.m_module)
               optimize == shader_template_data.m_allow_optimization
               \* a use of a destroyed function crashes, or goes on with what the memory holds
               crash1 == /\ optimize \/ shader_template_data.m_allow_verification
                         /\ \/ f = NullFunction                     \* *m_llvm_function of a null pointer
                            \/ Dangling(heap, f) /\ ub = "crash"
               heap1 == IF optimize THEN OptimizedHeap(heap, f) ELSE heap
               failed == VerificationFailed(shader_template_data.m_allow_verification, heap1, f)
               inst1 == IF optimize
                        THEN [inst[si] EXCEPT !.m_fpm = "attached", !.fpm_module = "alive"]
                        ELSE inst[si]
               engine == [null |-> FALSE, module |-> cloned_module,
                          added |-> shader_template_data.m_dependencies]
               found == symbol_found /\ cloned_module.fn = shader_template_data.m_root_function_name
           IN
           /\ tpl' = tpl
           /\ heap' = heap1
           /\ IF crash1
              THEN /\ last' = Record("resolve_instance", si, si, Crash)
                   /\ inst' = [inst EXCEPT ![si] = inst1]
              ELSE IF failed
              THEN \* the clone is destroyed on return; a pass manager made for it stays
                   /\ last' = Record("resolve_instance", si, si, LLVMFunctionVerificationFailed)
                   /\ inst' = [inst EXCEPT ![si] =
                                 [inst1 EXCEPT !.fpm_module = IF optimize THEN "destroyed" ELSE @]]
              ELSE IF ~engine_ok
              THEN \* create() gave no engine: m_execution_engine-> of a null pointer
                   /\ last' = Record("resolve_instance", si, si, Crash)
                   /\ inst' = [inst EXCEPT ![si] =
                                 [inst1 EXCEPT !.m_execution_engine = NullEngine,
                                               !.fpm_module = IF @ = "none" THEN @ ELSE "destroyed"]]
              ELSE /\ last' = Record("resolve_instance", si, si, Succeed)
                   /\ inst' = [inst EXCEPT ![si] =
                                 [inst1 EXCEPT !.m_execution_engine = engine,
                                               !.fpm_module = IF optimize THEN "alive"
                                                              ELSE IF @ = "none" THEN @ ELSE "destroyed",
                                               !.m_function_pointer = IF found THEN 1 ELSE 0]]

-----------------------------------------------------------------------------
(* compile, lines 122-209 *)

\* What the parser and the code generator make of a source text:
\*   parses    yyparse returned 0
\*   shader    the name of the shader entry the parser pushed, "" when there is none
\*   functions the free functions the parser pushed
\*   closures  whether every touched closure can be declared
\*   codegen   what m_ast_root->codegen gives: "null", "valid" or "broken" IR
Source(parses, shader, functions, closures, codegen) ==
    [parses |-> parses, shader |-> shader, functions |-> functions, closures |-> closures,
     codegen |-> codegen]

SourceTexts ==
    { Source(TRUE, "main", <<"f">>, TRUE, "valid"),
      Source(TRUE, "main", <<>>, TRUE, "broken"),
      Source(TRUE, "main", <<>>, TRUE, "null"),
      Source(TRUE, "main", <<>>, FALSE, "valid"),
      Source(TRUE, "", <<"f">>, TRUE, "valid"),
      Source(FALSE, "main", <<>>, TRUE, "valid"),
      Source(FALSE, "", <<>>, TRUE, "valid") }

\* no source text was compiled yet
NoSource == Source(FALSE, "", <<>>, TRUE, "null")

\* a compile that goes on whatever the parser returned
ParseFailed_Never(source) == FALSE

\* lines 144-145: parsing_result != 0
ParseFailed(source) == ~source.parses

\* lines 95-116: the callbacks the parser makes while it parses the source
Parsed(d, source) ==
    [d EXCEPT !.m_ast_root = IF source.shader # "" THEN source.shader ELSE @,
              !.m_functions = @ \o source.functions]

\* the exposed arguments parse_shader_parameters reads from a shader entry
ShaderParameters == << Arg("x", "float", FALSE), Arg("y", "float", TRUE) >>

\* lines 147-208: what compile makes of a parsed source, from the state the parser
\* left in the driver d: the value returned, the content of the new module and the
\* unit data of the template
Lowered(d, su_pvt, source, module) ==
    LET has_root == d.m_ast_root # ""
        declared == has_root /\ source.closures
        function == IF source.codegen = "null" THEN NullFunction
                    ELSE [mod |-> module, name |-> d.m_ast_root]
    IN [ret |-> IF ~has_root THEN "true"
                ELSE IF ~declared THEN "false"
                ELSE IF function = NullFunction THEN "false" ELSE "true",
        content |-> [NewModule(su_pvt.m_name) EXCEPT
                       !.fn = IF declared /\ function # NullFunction THEN d.m_ast_root ELSE "",
                       !.functions = IF declared THEN d.m_functions ELSE <<>>,   \* lines 186-187
                       !.broken = declared /\ source.codegen = "broken"],
        tpl |-> IF declared
                THEN [su_pvt EXCEPT !.m_module = module,
                                    !.m_llvm_function = function,
                                    !.m_root_function_name = d.m_ast_root,
                                    !.m_dependencies = @ \cup {ClosureModule},
                                    !.m_ast_root = d.m_ast_root,
                                    !.m_exposed_args = ShaderParameters]
                ELSE [su_pvt EXCEPT !.m_module = module]]

Compile(su, source) ==
    /\ Running
    /\ nops' = nops + 1
    /\ UNCHANGED << group_vars, inst, service_vars >>
    /\ LET d == Parsed([reset(driver) EXCEPT !.m_scanner = TRUE], source)
           su_pvt == tpl[su]
           low == Lowered(d, su_pvt, source, Len(heap) + 1)
           ret == IF ParseFailed(source) THEN "false" ELSE low.ret
       IN
       /\ driver' = d
       /\ last' = Record("compile", su, "", ret)
       /\ hist' = [hist EXCEPT !.compiles = @ + 1,
                               !.rootless = source.parses /\ d.m_ast_root = "",
                               !.compiled = ret,
                               !.source = source]
       /\ IF ParseFailed(source)
          THEN UNCHANGED << tpl, heap >>
          ELSE /\ heap' = Append(Destroy(heap, su_pvt.m_module), low.content)
               /\ tpl' = [tpl EXCEPT ![su] = low.tpl]

-----------------------------------------------------------------------------
(* ShaderGroupTemplate::set_root *)

SetRoot(name) ==
    /\ Running
    /\ nops' = nops + 1
    /\ m_root_shader_unit_name' = name
    /\ last' = Record("set_root", GroupId, "", Succeed)
    /\ UNCHANGED << m_shader_units, m_shader_unit_connections, m_input_args, m_output_args,
                    m_shader_input_defaults, tpl, heap, inst, driver, hist, service_vars >>

-----------------------------------------------------------------------------
(* ClosureRegister *)

INVALID_CLOSURE_ID == 0
CLOSURE_ADD == -1
CLOSURE_MUL == -2

\* the threads that register closures, and the closure names they use
Threads == {1, 2}
ClosureNames == {"lambert", "mirror", "glass"}
NoThread == 0

\* a counter that starts at the invalid id
FirstClosureId_Invalid == INVALID_CLOSURE_ID

\* closure_register.h line 47: the initial value of m_current_closure_id
FirstClosureId == INVALID_CLOSURE_ID + 1

NoRegistration == [thread |-> NoThread, name |-> "", ret |-> INVALID_CLOSURE_ID,
                   pre_closures |-> [n \in {} |-> 0], pre_id |-> FirstClosureId, pre_decls |-> {}]

\* the register after init(): no closure, an empty closure module, nobody in the mutex
FreshRegister ==
    [m_closures |-> [n \in {} |-> 0], m_current_closure_id |-> FirstClosureId,
     decls |-> {}, m_closure_mutex |-> NoThread,
     pc |-> [t \in Threads |-> "idle"], arg |-> [t \in Threads |-> [name |-> "", size |-> 0]],
     calls |-> 0, last |-> NoRegistration,
     copy |-> [t \in Threads |-> {}]]

\* a register that forgets what it registered
AlreadyRegistered_Never(closures, name) == FALSE

\* the name has an id
AlreadyRegistered(closures, name) == name \in DOMAIN closures

\* the constructor the closure module declares for a closure
MakeClosureName(name) == "make_closure_" \o name

\* a thread calls register_closure_type
RegisterCall(t, name, structure_size) ==
    /\ reg.calls < MaxRegisters
    /\ reg.pc[t] = "idle"
    /\ reg' = [reg EXCEPT !.pc[t] = "waiting", !.calls = @ + 1,
                           !.arg[t] = [name |-> name, size |-> structure_size]]
    /\ UNCHANGED << compiler_vars, arena, par >>

\* the thread takes m_closure_mutex once nobody holds it
RegisterLock(t) ==
    /\ reg.pc[t] = "waiting" /\ reg.m_closure_mutex = NoThread
    /\ reg' = [reg EXCEPT !.pc[t] = "locked", !.m_closure_mutex = t]
    /\ UNCHANGED << compiler_vars, arena, par >>

\* the body of register_closure_type, run by the thread that holds the mutex, and
\* the release of the mutex on return
register_closure_type(t) ==
    /\ reg.pc[t] = "locked" /\ reg.m_closure_mutex = t
    /\ LET name == reg.arg[t].name
           known == AlreadyRegistered(reg.m_closures, name)
           valid == reg.arg[t].size > 0
           id == reg.m_current_closure_id
           ret == IF known THEN reg.m_closures[name]
                  ELSE IF valid THEN id ELSE INVALID_CLOSURE_ID
           fresh == ~known /\ valid
       IN reg' = [reg EXCEPT
                    !.m_closures = IF fresh
                                   THEN [n \in DOMAIN @ \cup {name} |-> IF n = name THEN id ELSE @[n]]
                                   ELSE @,
                    !.m_current_closure_id = IF fresh THEN @ + 1 ELSE @,
                    !.decls = IF fresh THEN @ \cup {MakeClosureName(name)} ELSE @,
                    !.m_closure_mutex = NoThread,
                    !.pc[t] = "idle",
                    !.arg[t] = [name |-> "", size |-> 0],
                    !.last = [thread |-> t, name |-> name, ret |-> ret,
                              pre_closures |-> reg.m_closures, pre_id |-> reg.m_current_closure_id,
                              pre_decls |-> reg.decls]]
    /\ UNCHANGED << compiler_vars, arena, par >>

\* lines 259-260 of resolve(instance): the thread starts llvm::CloneModule on the
\* closure module, a module of the template's dependency set; no mutex is taken
CloneClosureModuleBegin(t) ==
    /\ reg.pc[t] = "idle"
    /\ reg' = [reg EXCEPT !.pc[t] = "cloning", !.copy[t] = reg.decls]
    /\ UNCHANGED << compiler_vars, arena, par >>

\* what a copy can hold of a module that was written while it was read: the
\* declarations before the write, those after it, or a broken list
RaceOutcomes == {"before", "after", "torn"}

\* lines 260-261: the copy is complete and is handed to the engine.  copy[t] holds the
\* declarations the module had when the copy began.
CloneClosureModuleEnd(t, read) ==
    /\ reg.pc[t] = "cloning"
    /\ reg' = [reg EXCEPT !.pc[t] = "idle",
                           !.copy[t] = IF reg.decls = @ \/ read = "after" THEN reg.decls
                                       ELSE IF read = "before" THEN @
                                       ELSE {"torn"}]
    /\ UNCHANGED << compiler_vars, arena, par >>

-----------------------------------------------------------------------------
(* ast_memory_janitor.cpp: Ast_Memory_Guard, track_ast_node, ast_ptr_from_raw *)

\* the classes ast_ptr_from_raw is asked for, and the dynamic types of the nodes
NodeTypes == {"AstNode_Expression", "AstNode_Statement"}

\* a node: its dynamic type, whether its memory is still allocated, the use count
\* of its shared_ptr control block, and the handles held outside the janitors
NewNode(type) == [type |-> type, alive |-> TRUE, use_count |-> 0, handles |-> 0]

NoArenaOp == [op |-> "none", thread |-> NoThread, ptr |-> 0, T |-> "", ret |-> FALSE,
              region |-> {}, pre_stack |-> <<>>]

\* every thread starts with an empty thread_local stack
FreshArena ==
    [nodes |-> <<>>, stack |-> [t \in Threads |-> <<>>], ops |-> 0, last |-> NoArenaOp]

\* one owner of node n lets go: the node is deleted when the use count reaches 0
ReleaseOne(nodes, n) ==
    [nodes EXCEPT ![n].use_count = @ - 1, ![n].alive = (@ /\ nodes[n].use_count > 1)]

\* a janitor that goes away without its nodes
Release_Leak(nodes, region) == nodes

\* lines 44 and 55: the map of a janitor is destroyed with it, and every shared_ptr in it
Release(nodes, region) ==
    [n \in DOMAIN nodes |-> IF n \in region THEN ReleaseOne(nodes, n)[n] ELSE nodes[n]]

\* a lookup that asks the innermost region only
find_in_stack_TopOnly(stack, ptr) == stack # <<>> /\ ptr \in stack[Len(stack)]

\* lines 69-71 and 37-39: the janitors of the stack are asked one after the other
find_in_stack(stack, ptr) == \E i \in DOMAIN stack : ptr \in stack[i]

\* line 72: std::dynamic_pointer_cast<const T>
dynamic_pointer_cast(T, node) == node.type = T

ArenaOp(op, t, ptr, T, ret, region) ==
    [op |-> op, thread |-> t, ptr |-> ptr, T |-> T, ret |-> ret, region |-> region,
     pre_stack |-> IF t \in Threads THEN arena.stack[t] ELSE <<>>]

ArenaRunning == arena.ops < MaxArenaOps

\* lines 50-52: Ast_Memory_Guard(), a region is entered
EnterRegion(t) ==
    /\ ArenaRunning /\ Len(arena.stack[t]) < MaxDepth
    /\ arena' = [arena EXCEPT !.stack[t] = Append(@, {}), !.ops = @ + 1,
                               !.last = ArenaOp("enter", t, 0, "", FALSE, {})]
    /\ UNCHANGED << compiler_vars, reg, par >>

\* lines 54-56: ~Ast_Memory_Guard(), the innermost region is left
LeaveRegion(t) ==
    /\ ArenaRunning /\ arena.stack[t] # <<>>
    /\ LET region == arena.stack[t][Len(arena.stack[t])] IN
       arena' = [arena EXCEPT !.stack[t] = SubSeq(@, 1, Len(@) - 1),
                              !.nodes = Release(@, region),
                              !.ops = @ + 1,
                              !.last = ArenaOp("leave", t, 0, "", FALSE, region)]
    /\ UNCHANGED << compiler_vars, reg, par >>

\* the outermost janitor of the stack
back_Outermost(stack) == 1

\* line 60: g_tsl_memory_janitor_stack.back(), the position of the innermost janitor
back(stack) == Len(stack)

\* lines 58-63 and 28-33: a node is made and tracked by the innermost region of the
\* thread that makes it; with no region it is not tracked at all
TrackNewNode(t, type) ==
    /\ ArenaRunning /\ Len(arena.nodes) < MaxNodes
    /\ LET n == Len(arena.nodes) + 1
           tracked == arena.stack[t] # <<>>
       IN arena' = [arena EXCEPT
                      !.nodes = Append(@, [NewNode(type) EXCEPT !.use_count = IF tracked THEN 1 ELSE 0]),
                      !.stack[t] = IF tracked
                                   THEN [i \in DOMAIN @ |-> IF i = back(@) THEN @[i] \cup {n} ELSE @[i]]
                                   ELSE @,
                      !.ops = @ + 1,
                      !.last = ArenaOp("track", t, n, type, tracked, {})]
    /\ UNCHANGED << compiler_vars, reg, par >>

\* lines 67-75: ast_ptr_from_raw<T>(ptr); keep says whether the caller keeps the handle
ast_ptr_from_raw(t, T, ptr, keep) ==
    /\ ArenaRunning /\ ptr \in DOMAIN arena.nodes
    /\ LET ret == find_in_stack(arena.stack[t], ptr) /\ dynamic_pointer_cast(T, arena.nodes[ptr]) IN
       arena' = [arena EXCEPT
                    !.nodes[ptr] = IF ret /\ keep
                                   THEN [@ EXCEPT !.use_count = @ + 1, !.handles = @ + 1]
                                   ELSE @,
                    !.ops = @ + 1,
                    !.last = ArenaOp("ast_ptr_from_raw", t, ptr, T, ret, {})]
    /\ UNCHANGED << compiler_vars, reg, par >>

\* a holder of a handle lets go of it
DropHandle(ptr) ==
    /\ ArenaRunning /\ ptr \in DOMAIN arena.nodes /\ arena.nodes[ptr].handles > 0
    /\ arena' = [arena EXCEPT
                    !.nodes = [ReleaseOne(@, ptr) EXCEPT ![ptr].handles = @ - 1],
                    !.ops = @ + 1,
                    !.last = ArenaOp("drop", NoThread, ptr, "", FALSE, {})]
    /\ UNCHANGED << compiler_vars, reg, par >>

-----------------------------------------------------------------------------
(* Initial states *)

Template(name, fn, args, module, opt, ver) ==
    [m_name |-> name, m_module |-> module,
     m_llvm_function |-> IF module = NullModule THEN NullFunction ELSE [mod |-> module, name |-> fn],
     m_root_function_name |-> IF module = NullModule THEN "" ELSE fn,
     m_dependencies |-> IF module = NullModule THEN {} ELSE {ClosureModule},
     m_ast_root |-> IF module = NullModule THEN "" ELSE fn,
     m_exposed_args |-> args,
     m_allow_optimization |-> opt, m_allow_verification |-> ver]

CompiledModule(name, fn) == [NewModule(name) EXCEPT !.fn = fn]

FreshDriver == [m_scanner |-> FALSE, m_ast_root |-> "", m_functions |-> <<>>, m_structures |-> <<>>,
                m_global_var |-> <<>>, m_closures_in_shader |-> {}]

\* the unit templates: U1(in x, out y) and U2(in x, in z, out y), with z of type tz
UnitArgs(u, tz) ==
    IF u = "U1" THEN << Arg("x", "float", FALSE), Arg("y", "float", TRUE) >>
    ELSE << Arg("x", "float", FALSE), Arg("z", tz, FALSE), Arg("y", "float", TRUE) >>

-----------------------------------------------------------------------------
(* compile called by several threads, each with a driver and a template of its own *)

\* the template a thread compiles into, before its first compile
ThreadTemplate == Template("U3", "", <<>>, NullModule, TRUE, TRUE)

\* the whole of compile, lines 122-209, run without interruption on driver d0
SequentialCompile(d0, su_pvt, module_content, source, module) ==
    LET d == Parsed([reset(d0) EXCEPT !.m_scanner = TRUE], source)
        low == Lowered(d, su_pvt, source, module)
    IN IF ParseFailed(source)
       THEN [driver |-> d, ret |-> "false", tpl |-> su_pvt, mod |-> module_content]
       ELSE [driver |-> d, ret |-> low.ret, tpl |-> low.tpl, mod |-> low.content]

FreshPar ==
    [driver |-> [t \in Threads |-> FreshDriver],
     tpl |-> [t \in Threads |-> ThreadTemplate],
     mod |-> [t \in Threads |-> NoModuleContent],
     pc |-> [t \in Threads |-> "idle"],
     src |-> [t \in Threads |-> NoSource],
     ret |-> [t \in Threads |-> ""],
     overlap |-> [t \in Threads |-> FALSE],
     seq |-> [t \in Threads |-> [driver |-> FreshDriver, ret |-> "", tpl |-> ThreadTemplate,
                                 mod |-> NoModuleContent]],
     verbose |-> TRUE,
     calls |-> 0]

\* the parser's verbosity flag, one for the process, after makeVerbose(verbose)
makeVerbose(verbose) == verbose # 0

\* every thread calls compile on one driver
DriverOf_Shared(t) == 1

\* the members of TslCompiler_Impl belong to the driver object, and every thread has its own
DriverOf(t) == t

\* some other thread is inside compile
OthersCompiling(t) == \E o \in Threads \ {t} : par.pc[o] \in {"parsing", "parsed"}

\* lines 128-135: makeVerbose(false), reset() and the new scanner
ParCompileBegin(t, source) ==
    /\ par.calls < MaxParCompiles
    /\ par.pc[t] \in {"idle", "done"}
    /\ par' = [par EXCEPT
                  !.calls = @ + 1,
                  !.verbose = makeVerbose(0),
                  !.driver[DriverOf(t)] = [reset(@) EXCEPT !.m_scanner = TRUE],
                  !.src[t] = source,
                  !.ret[t] = "",
                  !.pc[t] = "parsing",
                  !.overlap[t] = OthersCompiling(t),
                  !.seq[t] = SequentialCompile(@.driver, @.tpl, @.mod, source, t)]
    /\ UNCHANGED << compiler_vars, reg, arena >>

\* lines 138-145: the parser runs and calls the driver back; a failure returns false
ParCompileParse(t) ==
    /\ par.pc[t] = "parsing"
    /\ par' = [par EXCEPT
                  !.driver[DriverOf(t)] = Parsed(@, par.src[t]),
                  !.ret[t] = IF ParseFailed(par.src[t]) THEN "false" ELSE @,
                  !.pc[t] = IF ParseFailed(par.src[t]) THEN "done" ELSE "parsed",
                  !.overlap[t] = @ \/ OthersCompiling(t)]
    /\ UNCHANGED << compiler_vars, reg, arena >>

\* lines 147-208: the module is made and the parsed source is lowered into it
ParCompileLower(t) ==
    /\ par.pc[t] = "parsed"
    /\ LET low == Lowered(par.driver[DriverOf(t)], par.tpl[t], par.src[t], t) IN
       par' = [par EXCEPT
                  !.tpl[t] = low.tpl,
                  !.mod[t] = low.content,
                  !.ret[t] = low.ret,
                  !.pc[t] = "done",
                  !.overlap[t] = @ \/ OthersCompiling(t)]
    /\ UNCHANGED << compiler_vars, reg, arena >>


-----------------------------------------------------------------------------
(* Initial states, continued *)

InitTemplates(tz, group_args, opt, ver) ==
    /\ tpl = [t \in TemplateIds |->
                CASE t = "U1" -> Template("U1", "shader_u1", UnitArgs("U1", tz), 1, opt, ver)
                  [] t = "U2" -> Template("U2", "shader_u2", UnitArgs("U2", tz), 2, opt, ver)
                  [] t = "U3" -> Template("U3", "", <<>>, NullModule, opt, ver)
                  [] OTHER    -> Template(GroupId, "", group_args, NullModule, opt, ver)]
    /\ heap = << CompiledModule("U1", "shader_u1"), CompiledModule("U2", "shader_u2") >>
    /\ inst = [t \in TemplateIds |-> FreshInstance]
    /\ driver = FreshDriver
    /\ reg = FreshRegister
    /\ arena = FreshArena
    /\ par = FreshPar
    /\ nops = 0
    /\ hist = [compiles |-> 0, rootless |-> FALSE, compiled |-> "", source |-> NoSource,
               group_resolves |-> 0, group_failed |-> FALSE]

NoOp == [op |-> "none", target |-> GroupId, instance |-> "", ret |-> Succeed,
         pre_tpl |-> Template(GroupId, "", <<>>, NullModule, TRUE, TRUE), pre_mod |-> NoModuleContent,
         pre_units |-> [k \in {} |-> DefaultCopy], pre_inst |-> FreshInstance, n_modules |-> 0]

\* the units of the groups: r is a U2, a and b are U1
Units == [n \in InstNames |-> [m_name |-> n, m_shader_unit_template |-> IF n = "r" THEN "U2" ELSE "U1"]]

InSlots == { <<"r", "x">>, <<"r", "z">>, <<"a", "x">>, <<"b", "x">> }
None == <<"", "">>
Sources == { <<n, "y">> : n \in InstNames \cup {Ghost} }

\* a map of maps from the pairs of S that f gives a value other than none
Nested(f, S, none) ==
    [n \in {s[1] : s \in {t \in S : f[t] # none}} |->
        [a \in {s[2] : s \in {t \in S : t[1] = n /\ f[t] # none}} |-> f[<<n, a>>]]]

FloatDefault == [m_type |-> "float"]
NoDefault == [m_type |-> ""]

\* every graph over the input slots; defaults for every input, or for every input but b's
InitGraph ==
    /\ InitTemplates("float", <<>>, TRUE, TRUE)
    /\ m_shader_units = Units
    /\ \E c \in [InSlots -> Sources \cup {None}] :
          m_shader_unit_connections = Nested(c, InSlots, None)
    /\ \E D \in {InSlots, InSlots \ {<<"b", "x">>}} :
          m_shader_input_defaults = Nested([s \in InSlots |-> IF s \in D THEN FloatDefault ELSE NoDefault],
                                           InSlots, NoDefault)
    /\ m_input_args = [k \in {} |-> [a \in {} |-> 0]]
    /\ m_output_args = [k \in {} |-> [a \in {} |-> 0]]
    /\ m_root_shader_unit_name \in {"r", "a"}
    /\ last = NoOp

NextGraph ==
    \E unit_order \in Orders(DOMAIN m_shader_units), arg_order \in Orders({"x", "z"}), ub \in UBOutcomes :
        /\ nops < MaxGroupResolves
        /\ ResolveGroup(GroupId, unit_order, arg_order, ub)

SpecGraph == InitGraph /\ [][NextGraph]_vars

\* One group: r reads b and has a default for z, b has a default, a reads itself.
\* The root is not set, or names r, a or an instance that is not a unit.  The
\* templates allow or forbid optimization and verification.
Init ==
    /\ \E opt \in BOOLEAN, ver \in BOOLEAN : InitTemplates("float", <<>>, opt, ver)
    /\ m_shader_units = Units
    /\ m_shader_unit_connections = [n \in {"r", "a"} |-> [a \in {"x"} |->
                                       IF n = "r" THEN <<"b", "y">> ELSE <<"a", "y">>]]
    /\ m_shader_input_defaults = [n \in {"r", "b"} |-> [a \in {IF n = "r" THEN "z" ELSE "x"} |->
                                       FloatDefault]]
    /\ m_input_args = [k \in {} |-> [a \in {} |-> 0]]
    /\ m_output_args = [k \in {} |-> [a \in {} |-> 0]]
    /\ m_root_shader_unit_name \in {"", "r", "a", Ghost}
    /\ last = NoOp

\* The ways the two inputs of r can be supplied: r.x from b.y, from group argument 0
\* or from a default; r.z, of type tz, from a.y, from group argument 0 or 1, or
\* from a default of some type.  The group has one exposed argument.
InitArgs ==
    /\ \E tz \in {"float", "float4", "matrix"} :
          InitTemplates(tz, << Arg("in0", "float", FALSE) >>, TRUE, TRUE)
    /\ m_shader_units = Units
    /\ \E cx \in {None, <<"b", "y">>}, cz \in {None, <<"a", "y">>} :
          m_shader_unit_connections =
             Nested([s \in {<<"r", "x">>, <<"r", "z">>} |-> IF s[2] = "x" THEN cx ELSE cz],
                    {<<"r", "x">>, <<"r", "z">>}, None)
    /\ \E ex \in {-1, 0}, ez \in {-1, 0, 1} :
          m_input_args =
             Nested([s \in {<<"r", "x">>, <<"r", "z">>} |-> IF s[2] = "x" THEN ex ELSE ez],
                    {<<"r", "x">>, <<"r", "z">>}, -1)
    /\ \E dx \in {"", "float"}, dz \in {"", "float", "int", "float4"} :
          m_shader_input_defaults =
             Nested([s \in InSlots |-> [m_type |-> IF s = <<"r", "x">> THEN dx
                                                   ELSE IF s = <<"r", "z">> THEN dz ELSE "float"]],
                    InSlots, NoDefault)
    /\ m_output_args = [k \in {} |-> [a \in {} |-> 0]]
    /\ m_root_shader_unit_name = "r"
    /\ last = NoOp

SpecArgs == InitArgs /\ [][NextGraph]_vars

\* the arguments of the group of InitSlots: one input and one output
SlotGroupArgs == << Arg("in0", "float", FALSE), Arg("out0", "float", TRUE) >>

\* The group r(x, z, y), a(x, y), b(x, y) with root r.  r.x reads an argument of a: its
\* output y, its input x, or w, which U1 does not have.  r.z is exposed as group argument
\* ez or has a default; the outputs a.y and r.y are exposed as group arguments oa and
\* oy or not at all.  The group has two arguments, so an index of 2 is past the end.
InitSlots ==
    /\ InitTemplates("float", SlotGroupArgs, TRUE, TRUE)
    /\ m_shader_units = Units
    /\ \E sa \in {"y", "x", "w", ""} :
          m_shader_unit_connections =
             Nested([s \in {<<"r", "x">>} |-> IF sa = "" THEN None ELSE <<"a", sa>>], {<<"r", "x">>}, None)
    /\ \E ez \in {-1, 0, 1, 2} :
          m_input_args = Nested([s \in {<<"r", "z">>} |-> ez], {<<"r", "z">>}, -1)
    /\ \E oa \in {-1, 1, 2}, oy \in {-1, 1, 2} :
          m_output_args =
             Nested([s \in {<<"a", "y">>, <<"r", "y">>} |-> IF s[1] = "a" THEN oa ELSE oy],
                    {<<"a", "y">>, <<"r", "y">>}, -1)
    /\ m_shader_input_defaults = Nested([s \in InSlots |-> FloatDefault], InSlots, NoDefault)
    /\ m_root_shader_unit_name = "r"
    /\ last = NoOp

SpecSlots == InitSlots /\ [][NextGraph]_vars

\* The chain r <- n2 <- n3 of three instances, each of template U1 or U2, with the root
\* r or n2.  The instance names n2 and n3 are ordinary names or the names of the unit
\* templates; every input that is not connected has a default.
InitNames ==
    /\ InitTemplates("float", <<>>, TRUE, TRUE)
    /\ \E n2 \in {"a", "U1", "U2"}, n3 \in {"b", "U1", "U2"} :
          /\ n2 # n3
          /\ \E t \in [{"r", n2, n3} -> UnitIds \ {"U3"}] :
                m_shader_units = [n \in {"r", n2, n3} |-> [m_name |-> n, m_shader_unit_template |-> t[n]]]
          /\ m_shader_unit_connections = [n \in {"r", n2} |-> [a \in {"x"} |->
                                             IF n = "r" THEN <<n2, "y">> ELSE <<n3, "y">>]]
          /\ m_shader_input_defaults = [n \in {"r", n2, n3} |-> [a \in {"x", "z"} |-> FloatDefault]]
          /\ m_root_shader_unit_name \in {"r", n2}
    /\ m_input_args = [k \in {} |-> [a \in {} |-> 0]]
    /\ m_output_args = [k \in {} |-> [a \in {} |-> 0]]
    /\ last = NoOp

SpecNames == InitNames /\ [][NextGraph]_vars

\* Threads register closures; a size of 0 is a schema the register rejects
RegisterCallStep ==
    \E t \in Threads, name \in ClosureNames, structure_size \in {0, 16} :
        RegisterCall(t, name, structure_size)

RegisterLockStep == \E t \in Threads : RegisterLock(t)

RegisterBodyStep == \E t \in Threads : register_closure_type(t)

NextRegister == RegisterCallStep \/ RegisterLockStep \/ RegisterBodyStep

\* one compiler state, with nothing registered
InitRegister ==
    /\ Init
    /\ m_root_shader_unit_name = ""
    /\ tpl["U1"].m_allow_optimization /\ tpl["U1"].m_allow_verification

SpecRegister == InitRegister /\ [][NextRegister]_vars

CloneBeginStep == \E t \in Threads : CloneClosureModuleBegin(t)

CloneEndStep == \E t \in Threads, read \in RaceOutcomes : CloneClosureModuleEnd(t, read)

\* threads register closures while other threads resolve instances
NextShared == NextRegister \/ CloneBeginStep \/ CloneEndStep

SpecShared == InitRegister /\ [][NextShared]_vars

EnterRegionStep == \E t \in Threads : EnterRegion(t)

LeaveRegionStep == \E t \in Threads : LeaveRegion(t)

TrackNewNodeStep == \E t \in Threads, type \in NodeTypes : TrackNewNode(t, type)

AstPtrFromRawStep ==
    \E t \in Threads, T \in NodeTypes, ptr \in 1..MaxNodes, keep \in BOOLEAN :
        ast_ptr_from_raw(t, T, ptr, keep)

DropHandleStep == \E ptr \in 1..MaxNodes : DropHandle(ptr)

NextArena ==
    EnterRegionStep \/ LeaveRegionStep \/ TrackNewNodeStep \/ AstPtrFromRawStep \/ DropHandleStep

SpecArena == InitRegister /\ [][NextArena]_vars

ParCompileBeginStep == \E t \in Threads, source \in SourceTexts : ParCompileBegin(t, source)

ParCompileParseStep == \E t \in Threads : ParCompileParse(t)

ParCompileLowerStep == \E t \in Threads : ParCompileLower(t)

NextPar == ParCompileBeginStep \/ ParCompileParseStep \/ ParCompileLowerStep

SpecPar == InitRegister /\ [][NextPar]_vars

\* the iteration orders and the outcome of an undefined read matter only once the
\* group passed the tests of lines 275-290
ResolveGroupStep ==
    \/ \E sg \in {"null", "nodata"} : ResolveGroup(sg, <<>>, <<>>, "crash")
    \/ \E unit_order \in Orders(DOMAIN m_shader_units), arg_order \in Orders({"x", "z"}),
          ub \in UBOutcomes :
           ResolveGroup(GroupId, unit_order, arg_order, ub)

ResolveInstanceStep ==
    \E si \in {"null", "U1", "U3", GroupId}, engine_ok \in BOOLEAN, symbol_found \in BOOLEAN,
       ub \in UBOutcomes :
        ResolveInstance(si, engine_ok, symbol_found, ub)

CompileStep == \E source \in SourceTexts : Compile("U3", source)

SetRootStep == \E name \in {"r", "a", Ghost} : SetRoot(name)

Next == ResolveGroupStep \/ ResolveInstanceStep \/ CompileStep

Spec == Init /\ [][Next]_vars

\* the application may also name another root between two operations
NextRoots == Next \/ SetRootStep

SpecRoots == Init /\ [][NextRoots]_vars

-----------------------------------------------------------------------------
(* The connection graph of a group, for the statements about resolve(group) *)

\* the instances that the connections of instance d read from
Feeds(d) ==
    IF d \in DOMAIN m_shader_unit_connections
    THEN { m_shader_unit_connections[d][a][1] : a \in DOMAIN m_shader_unit_connections[d] }
    ELSE {}

RECURSIVE Closure(_)
Closure(S) ==
    LET T == S \cup UNION { Feeds(d) : d \in S } IN IF T = S THEN S ELSE Closure(T)

\* reachable from n through zero or more connections, through one or more
Reach(n) == Closure({n})
ReachPlus(n) == IF Feeds(n) = {} THEN {} ELSE Closure(Feeds(n))

\* n is a unit instance on a self-connection or on a longer cycle
OnCycle(n) == n \in DOMAIN last.pre_units /\ n \in ReachPlus(n)

GroupResolved ==
    /\ last.op = "resolve_group" /\ last.target = GroupId
    /\ m_root_shader_unit_name \in DOMAIN last.pre_units

CycleFromRoot == \E n \in Reach(m_root_shader_unit_name) : OnCycle(n)

ArgsOf(n) == tpl[last.pre_units[n].m_shader_unit_template].m_exposed_args

IsOutArg(n, a) ==
    /\ n \in DOMAIN last.pre_units
    /\ last.pre_units[n].m_shader_unit_template # NullTemplate
    /\ \E i \in DOMAIN ArgsOf(n) : ArgsOf(n)[i].m_name = a /\ ArgsOf(n)[i].m_is_output

NumGroupArgs == Len(tpl[GroupId].m_exposed_args)

LowerableDefault(type) == type \in {"int", "float", "double", "bool", "float3"}

\* nothing but a cycle can make the generation of instance n fail
CleanInstance(n) ==
    /\ n \in DOMAIN last.pre_units
    /\ last.pre_units[n].m_shader_unit_template # NullTemplate
    /\ \A i \in DOMAIN ArgsOf(n) :
          LET arg == ArgsOf(n)[i] IN
          IF arg.m_is_output
          THEN IF Lookup(m_output_args, n, arg.m_name)
               THEN m_output_args[n][arg.m_name] < NumGroupArgs
               ELSE llvm_type_from_arg_type(arg.m_type) # NullType
          ELSE IF Lookup(m_shader_unit_connections, n, arg.m_name)
               THEN LET source == m_shader_unit_connections[n][arg.m_name] IN
                    IsOutArg(source[1], source[2]) /\ ~Lookup(m_output_args, source[1], source[2])
               ELSE IF Lookup(m_input_args, n, arg.m_name)
               THEN m_input_args[n][arg.m_name] < NumGroupArgs
               ELSE /\ llvm_type_from_arg_type(arg.m_type) # NullType
                    /\ Lookup(m_shader_input_defaults, n, arg.m_name)
                    /\ LowerableDefault(m_shader_input_defaults[n][arg.m_name].m_type)

\* every prototype can be declared
CleanPrototypes ==
    /\ \A n \in DOMAIN last.pre_units :
          /\ last.pre_units[n].m_shader_unit_template # NullTemplate
          /\ \A i \in DOMAIN ArgsOf(n) : llvm_type_from_arg_type(ArgsOf(n)[i].m_type) # NullType
    /\ \A i \in 1..NumGroupArgs :
          llvm_type_from_arg_type(tpl[GroupId].m_exposed_args[i].m_type) # NullType

CleanFromRoot == CleanPrototypes /\ \A n \in Reach(m_root_shader_unit_name) : CleanInstance(n)

\* the calls of the wrapper the group template holds
WrapperCalls == ModuleContent(heap, tpl[GroupId].m_module).calls

-----------------------------------------------------------------------------
(* Claims *)

\* C1, as stated: resolve(group) returns ShaderGroupWithCycles for every group, with
\* its root set and present in the units, whose connections hold a self-connection
\* or a cycle among its unit instances, reachable from the root or not.
C1_AnyCycleRejected ==
    (GroupResolved /\ \E n \in DOMAIN last.pre_units : OnCycle(n))
        => last.ret = ShaderGroupWithCycles

\* C1, amended: resolve(group) returns ShaderGroupWithCycles only when a cycle is
\* reachable from the root; a group with a cycle reachable from the root never
\* resolves to Succeed; and it is rejected with ShaderGroupWithCycles when nothing
\* else can fail (every prototype can be declared and every instance reachable from
\* the root is a unit whose arguments can all be supplied).
C1_CycleFromRootRejected ==
    GroupResolved =>
        /\ last.ret = ShaderGroupWithCycles => CycleFromRoot
        /\ CycleFromRoot => last.ret # Succeed
        /\ (CycleFromRoot /\ CleanFromRoot) => last.ret = ShaderGroupWithCycles

\* C1 witness: a clean group with a cycle of length two or more reachable from the root was rejected
C1_Witness ==
    /\ GroupResolved /\ CleanFromRoot /\ last.ret = ShaderGroupWithCycles
    /\ \E n \in Reach(m_root_shader_unit_name) : OnCycle(n) /\ n \notin Feeds(n)

\* C3, as stated, for a root all of whose connections name instances that are not
\* units: resolve(group) returns UndefinedShaderUnit, adds no entry to the units and
\* dereferences no missing unit template.
C3_UndefinedUnitReported ==
    (/\ GroupResolved
     /\ Feeds(m_root_shader_unit_name) # {}
     /\ Feeds(m_root_shader_unit_name) \cap DOMAIN last.pre_units = {})
        => /\ last.ret = UndefinedShaderUnit
           /\ m_shader_units = last.pre_units

\* C4: after a successful resolve(group) the wrapper holds exactly one call for each
\* instance reachable from the root, and no other call; a group with no cycle
\* reachable from the root is never rejected with ShaderGroupWithCycles.
C4_OneCallPerReachableInstance ==
    GroupResolved =>
        /\ last.ret = Succeed =>
              /\ { WrapperCalls[i].inst : i \in DOMAIN WrapperCalls } = Reach(m_root_shader_unit_name)
              /\ \A i, j \in DOMAIN WrapperCalls : WrapperCalls[i].inst = WrapperCalls[j].inst => i = j
        /\ ~CycleFromRoot => last.ret # ShaderGroupWithCycles

\* C4 witness: a group in which two connection paths lead from the root to one instance resolved
C4_Witness ==
    /\ GroupResolved /\ last.ret = Succeed
    /\ \E n \in Reach(m_root_shader_unit_name) :
          Cardinality({ d \in Reach(m_root_shader_unit_name) : n \in Feeds(d) }) >= 2

\* C2, as stated: whenever resolve(group) returns a status other than Succeed, the
\* module, the root function and the root function name of the group template, and
\* the content of that module, are what they were before the call.
C2_FailedGroupResolveLeavesTemplate ==
    (last.op = "resolve_group" /\ last.target = GroupId /\ last.ret \notin {Succeed, Crash})
        => /\ tpl[GroupId].m_module = last.pre_tpl.m_module
           /\ tpl[GroupId].m_llvm_function = last.pre_tpl.m_llvm_function
           /\ tpl[GroupId].m_root_function_name = last.pre_tpl.m_root_function_name
           /\ ModuleContent(heap, tpl[GroupId].m_module) = last.pre_mod

\* an in argument of a unit instance
InArgs(n) == { ArgsOf(n)[i].m_name : i \in { j \in DOMAIN ArgsOf(n) : ~ArgsOf(n)[j].m_is_output } }

\* the instances the traversal of the last resolve(group) can visit
Visitable == Reach(m_root_shader_unit_name) \cap DOMAIN last.pre_units

\* one of the three rules applies to the argument
Supplied(n, a) ==
    \/ Lookup(m_shader_unit_connections, n, a)
    \/ Lookup(m_input_args, n, a)
    \/ Lookup(m_shader_input_defaults, n, a)

\* the value the rules choose for the argument: a load of the source's slot, the
\* group argument of the exposure, or a constant
ChosenBy(n, a, value) ==
    IF Lookup(m_shader_unit_connections, n, a)
    THEN value.kind = "load" /\ <<value.inst, value.arg>> = m_shader_unit_connections[n][a]
    ELSE IF Lookup(m_input_args, n, a)
    THEN value.kind = "arg" /\ value.idx = m_input_args[n][a]
    ELSE value.kind = "const"

\* C5, as stated: the value of every in argument of a visited instance is chosen by
\* the first rule that applies of connection, exposure, default, and resolve(group)
\* returns ArgumentWithoutInitialization exactly when some in argument of a visited
\* instance has none of the three.
C5_FirstRuleThatApplies ==
    GroupResolved =>
        /\ last.ret = ArgumentWithoutInitialization
              <=> \E n \in Visitable : \E a \in InArgs(n) : ~Supplied(n, a)
        /\ last.ret = Succeed =>
              \A i \in DOMAIN WrapperCalls :
                 LET call == WrapperCalls[i] IN
                 \A k \in DOMAIN ArgsOf(call.inst) :
                    ~ArgsOf(call.inst)[k].m_is_output
                       => ChosenBy(call.inst, ArgsOf(call.inst)[k].m_name, call.args[k])

\* the last resolve(group) left the group as it was and made no module
GroupUntouched ==
    /\ Len(heap) = last.n_modules
    /\ tpl[GroupId] = last.pre_tpl
    /\ ModuleContent(heap, tpl[GroupId].m_module) = last.pre_mod
    /\ m_shader_units = last.pre_units

\* C6: resolve(group) returns InvalidInput for a null group and for a group whose
\* unit data is null, and ShaderGroupWithoutRoot when the root name is empty or is
\* not a key of the units; in these cases no module is created, the template is
\* unchanged and the units are unchanged.
C6_RootAndInputChecked ==
    last.op = "resolve_group" =>
        /\ last.target # GroupId => last.ret = InvalidInput /\ GroupUntouched
        /\ (/\ last.target = GroupId
            /\ m_root_shader_unit_name = "" \/ m_root_shader_unit_name \notin DOMAIN last.pre_units)
              => last.ret = ShaderGroupWithoutRoot /\ GroupUntouched

\* C6 witness: a group whose root names an instance that is not a unit was rejected
C6_Witness ==
    /\ last.op = "resolve_group" /\ last.target = GroupId
    /\ m_root_shader_unit_name = Ghost /\ Ghost \notin DOMAIN last.pre_units
    /\ last.ret = ShaderGroupWithoutRoot /\ GroupUntouched

\* the last operation was a resolve of an instance of a template, and it returned
InstanceResolved ==
    last.op = "resolve_instance" /\ last.target \in TemplateIds /\ last.ret # Crash

\* C7, as stated: resolve(instance) leaves the template it resolves, and the content
\* of the template's module, as they were before the call.
C7_TemplateUnmodified ==
    InstanceResolved =>
        /\ tpl[last.target] = last.pre_tpl
        /\ ModuleContent(heap, tpl[last.target].m_module) = last.pre_mod

\* C8, as stated: whenever resolve(instance) returns a status other than Succeed, the
\* pass manager, the engine and the function pointer of the instance are what they
\* were before the call, and no pass manager refers to a destroyed clone.
C8_FailedInstanceResolveLeavesNothing ==
    (InstanceResolved /\ last.ret # Succeed)
        => /\ inst[last.instance] = last.pre_inst
           /\ inst[last.instance].fpm_module # "destroyed"

\* C9, as stated: with allow_verification set, resolve(instance) of a template that
\* has a module and a root function returns LLVMFunctionVerificationFailed exactly
\* when the root function is broken; with allow_verification clear it never does.
C9_VerificationFailedIffBroken ==
    (/\ InstanceResolved
     /\ last.pre_tpl.m_module # NullModule
     /\ last.pre_tpl.m_llvm_function = [mod |-> last.pre_tpl.m_module,
                                         name |-> last.pre_tpl.m_root_function_name])
        => IF last.pre_tpl.m_allow_verification
           THEN last.ret = LLVMFunctionVerificationFailed <=> last.pre_mod.broken
           ELSE last.ret # LLVMFunctionVerificationFailed

TemplateUntouched ==
    /\ tpl[last.target] = last.pre_tpl
    /\ ModuleContent(heap, tpl[last.target].m_module) = last.pre_mod
    /\ Len(heap) = last.n_modules

\* C11: when the parser returns non-zero, compile() returns false and the module,
\* root function, root function name, dependency set, AST root and exposed
\* arguments of the template are what they were before the call; no module is made.
C11_ParseFailureLeavesTemplate ==
    (last.op = "compile" /\ ~hist.source.parses)
        => last.ret = "false" /\ TemplateUntouched

\* C11 witness: a source that does not parse was compiled into a template that an
\* earlier compile had given a module and a root function
C11_Witness ==
    /\ last.op = "compile" /\ ~hist.source.parses /\ last.ret = "false"
    /\ hist.compiles >= 2
    /\ last.pre_tpl.m_module # NullModule /\ last.pre_tpl.m_llvm_function # NullFunction
    /\ TemplateUntouched

\* the lowering of the last compiled source failed: a touched closure could not be
\* declared, or the shader root gave no function
LoweringFailed ==
    /\ hist.source.parses /\ hist.source.shader # ""
    /\ ~hist.source.closures \/ hist.source.codegen = "null"

\* C12, as stated: when lowering fails for a piece of a parsed source, compile()
\* returns false and the template keeps no module, root function, dependency or
\* AST root from that compile.
C12_FailedLoweringLeavesTemplate ==
    (last.op = "compile" /\ LoweringFailed)
        => last.ret = "false" /\ TemplateUntouched

\* a register_closure_type call returned
Registered == reg.last.thread # NoThread

\* C13: registering a name that is already registered returns the id of its first
\* registration, does not advance the id counter and does not add or change a
\* declaration of the closure module; the ids given are never taken back or changed.
C13_ReRegistrationReturnsSameId ==
    /\ (Registered /\ reg.last.name \in DOMAIN reg.last.pre_closures)
          => /\ reg.last.ret = reg.last.pre_closures[reg.last.name]
             /\ reg.m_current_closure_id = reg.last.pre_id
             /\ reg.decls = reg.last.pre_decls
             /\ reg.m_closures = reg.last.pre_closures
    /\ Registered =>
          \A n \in DOMAIN reg.last.pre_closures :
             n \in DOMAIN reg.m_closures /\ reg.m_closures[n] = reg.last.pre_closures[n]

\* C13 witness: the name registered first was registered again after a second
\* name was registered
C13_Witness ==
    /\ Registered /\ reg.last.name \in DOMAIN reg.last.pre_closures
    /\ Cardinality(DOMAIN reg.last.pre_closures) >= 2
    /\ reg.last.ret = 1 /\ reg.m_current_closure_id = 3

\* C14: the ids of the k registered names are exactly 1..k, distinct names hold
\* distinct ids, the counter is the next id, and no returned or stored id is 0
\* (invalid), -1 (add) or -2 (mul) except the invalid id returned for a rejected schema.
C14_IdsDenseFromOne ==
    LET k == Cardinality(DOMAIN reg.m_closures) IN
    /\ { reg.m_closures[n] : n \in DOMAIN reg.m_closures } = 1..k
    /\ \A n1, n2 \in DOMAIN reg.m_closures : reg.m_closures[n1] = reg.m_closures[n2] => n1 = n2
    /\ reg.m_current_closure_id = k + 1
    /\ \A n \in DOMAIN reg.m_closures :
          reg.m_closures[n] \notin {INVALID_CLOSURE_ID, CLOSURE_ADD, CLOSURE_MUL}
    /\ reg.last.ret \notin {CLOSURE_ADD, CLOSURE_MUL}
    /\ (Registered /\ reg.last.ret = INVALID_CLOSURE_ID) => reg.last.name \notin DOMAIN reg.m_closures

\* C14 witness: three names are registered while both threads have been inside
\* the call at the same time
C14_Witness ==
    /\ Cardinality(DOMAIN reg.m_closures) = 3
    /\ \E t \in Threads : reg.pc[t] = "waiting" /\ reg.last.thread \notin {t, NoThread}

\* node n is registered with a region of some thread's stack
InSomeRegion(n) == \E t \in Threads : \E i \in DOMAIN arena.stack[t] : n \in arena.stack[t][i]

\* C16, as stated: when a region is left, every node registered with it is freed at
\* that moment, handles held elsewhere or not.
C16_NoNodeOutlivesRegion ==
    arena.last.op = "leave" => \A n \in arena.last.region : ~arena.nodes[n].alive

\* C16, amended: when a region is left, no region holds its nodes any more, and a
\* node of it is freed at that moment exactly when no handle obtained from
\* ast_ptr_from_raw is still held; a node with a handle lives until the last handle
\* is dropped.  No node is freed while a region or a handle holds it.
C16_NodeLivesWhileHeld ==
    /\ arena.last.op = "leave" =>
          \A n \in arena.last.region :
             /\ ~InSomeRegion(n)
             /\ arena.nodes[n].alive <=> arena.nodes[n].handles > 0
    /\ arena.last.op = "drop" =>
          (arena.nodes[arena.last.ptr].alive
              <=> (arena.nodes[arena.last.ptr].handles > 0 \/ InSomeRegion(arena.last.ptr)))
    /\ \A n \in DOMAIN arena.nodes :
          (InSomeRegion(n) \/ arena.nodes[n].handles > 0) => arena.nodes[n].alive

\* C16 witness: a region was left with one node nobody held, now freed, and one node
\* with a handle, still alive
C16_Witness ==
    /\ arena.last.op = "leave"
    /\ \E n, m \in arena.last.region :
          /\ ~arena.nodes[n].alive
          /\ arena.nodes[m].alive /\ arena.nodes[m].handles > 0

\* ptr is registered with a region of the stack of the thread that made the last call
OnCallersStack ==
    \E i \in DOMAIN arena.stack[arena.last.thread] :
        arena.last.ptr \in arena.stack[arena.last.thread][i]

\* C17, as stated: ast_ptr_from_raw<T>(ptr) returns a non-null handle if and only if
\* ptr is registered with some region on the calling thread's stack.
C17_HandleIffRegistered ==
    arena.last.op = "ast_ptr_from_raw" => (arena.last.ret <=> OnCallersStack)

\* C17, amended: ast_ptr_from_raw<T>(ptr) returns a non-null handle if and only if
\* ptr is registered with some region on the calling thread's stack, at any depth,
\* and the node is a T.
C17_HandleIffRegisteredAsT ==
    arena.last.op = "ast_ptr_from_raw" =>
        (arena.last.ret <=> (OnCallersStack /\ arena.nodes[arena.last.ptr].type = arena.last.T))

\* C17 witness: a handle was returned for a node of the outer of two regions
C17_Witness ==
    /\ arena.last.op = "ast_ptr_from_raw" /\ arena.last.ret
    /\ Len(arena.stack[arena.last.thread]) = 2
    /\ arena.last.ptr \in arena.stack[arena.last.thread][1]

UnloweredTypeInUse ==
    \/ \E n \in DOMAIN last.pre_units :
          /\ last.pre_units[n].m_shader_unit_template # NullTemplate
          /\ \E k \in DOMAIN ArgsOf(n) :
                /\ llvm_type_from_arg_type(ArgsOf(n)[k].m_type) = NullType
                /\ \/ Lookup(m_shader_unit_connections, n, ArgsOf(n)[k].m_name)
                   \/ Lookup(m_input_args, n, ArgsOf(n)[k].m_name)
    \/ \E k \in DOMAIN last.pre_tpl.m_exposed_args :
          llvm_type_from_arg_type(last.pre_tpl.m_exposed_args[k].m_type) = NullType

\* C18, as stated: resolve(group) returns InvalidArgType whenever an argument in a
\* connection or an exposure has a type that cannot be lowered, and builds no
\* prototype from the missing type.
C18_UnloweredTypeRejected ==
    (GroupResolved /\ UnloweredTypeInUse) =>
        /\ last.ret = InvalidArgType
        /\ ModuleContent(heap, tpl[GroupId].m_module).protos = {}

\* C19: after a successful resolve(instance) the engine holds a copy of the template's
\* module as it was at the call and one copy of each module of the template's
\* dependency set; the template still owns its live module, its function and the same
\* dependency set, so it can be resolved again; and every template with a root
\* function, compiled or a resolved group, has the closure module in its set.
C19_EngineHoldsClones ==
    /\ (InstanceResolved /\ last.ret = Succeed) =>
          /\ inst[last.instance].m_execution_engine.module = last.pre_mod
          /\ inst[last.instance].m_execution_engine.added = last.pre_tpl.m_dependencies
          /\ tpl[last.target].m_module = last.pre_tpl.m_module
          /\ tpl[last.target].m_module # NullModule
          /\ heap[tpl[last.target].m_module].alive
          /\ tpl[last.target].m_llvm_function # NullFunction
          /\ tpl[last.target].m_dependencies = last.pre_tpl.m_dependencies
    /\ \A t \in TemplateIds :
          tpl[t].m_llvm_function # NullFunction => ClosureModule \in tpl[t].m_dependencies

\* C19 witness: the instance of a resolved group was resolved a second time, and its
\* engine holds the copy of the wrapper and the closure module
C19_Witness ==
    /\ InstanceResolved /\ last.ret = Succeed /\ last.target = GroupId
    /\ ~last.pre_inst.m_execution_engine.null
    /\ inst[GroupId].m_execution_engine.module.fn = WrapperName(GroupId)
    /\ ClosureModule \in inst[GroupId].m_execution_engine.added

\* C20: in the calls of the wrapper of a successful resolve(group), for every connection
\* between called instances the call of the source comes before the call of the
\* destination, and the call of the root is the last one.
C20_SourcesCalledFirst ==
    (GroupResolved /\ last.ret = Succeed) =>
        /\ WrapperCalls # <<>>
        /\ WrapperCalls[Len(WrapperCalls)].inst = m_root_shader_unit_name
        /\ \A i, j \in DOMAIN WrapperCalls :
              LET dst == WrapperCalls[j].inst
                  src == WrapperCalls[i].inst
              IN (/\ dst \in DOMAIN m_shader_unit_connections
                  /\ \E a \in DOMAIN m_shader_unit_connections[dst] :
                        m_shader_unit_connections[dst][a][1] = src)
                 => i < j

\* C20 witness: a resolved group in which one instance feeds the root both directly
\* and through another instance
C20_Witness ==
    /\ GroupResolved /\ last.ret = Succeed
    /\ Len(WrapperCalls) = 3
    /\ \E n \in Feeds(m_root_shader_unit_name) :
          \E k \in Feeds(m_root_shader_unit_name) \ {n} : n \in Feeds(k)

\* every exposure of the group names one of the arguments the group exposes
ExposuresInRange ==
    /\ \A n \in DOMAIN m_input_args : \A a \in DOMAIN m_input_args[n] :
          m_input_args[n][a] < Len(last.pre_tpl.m_exposed_args)
    /\ \A n \in DOMAIN m_output_args : \A a \in DOMAIN m_output_args[n] :
          m_output_args[n][a] < Len(last.pre_tpl.m_exposed_args)

\* C21, as stated: resolve(group) never looks up a missing slot, and in the wrapper every
\* load for a connected in argument reads a slot that an earlier call allocated for
\* the out argument of the source instance.
C21_LoadsFromRecordedSlot ==
    (GroupResolved /\ ExposuresInRange) =>
        /\ last.ret # Crash
        /\ last.ret = Succeed =>
              \A i \in DOMAIN WrapperCalls : \A k \in DOMAIN WrapperCalls[i].args :
                 LET value == WrapperCalls[i].args[k] IN
                 value.kind = "load" =>
                    \E j \in 1..(i - 1) :
                       /\ WrapperCalls[j].inst = value.inst
                       /\ \E m \in DOMAIN WrapperCalls[j].args :
                             /\ WrapperCalls[j].args[m].kind = "alloca"
                             /\ WrapperCalls[j].args[m].arg = value.arg

\* the base types a default may have
DefaultTypes == {"int", "float", "double", "bool", "float3", "float4"}

\* the in argument a of instance n takes the default of its declared type that the group supplies
TakesDefault(n, a, type) ==
    /\ ~Lookup(m_shader_unit_connections, n, a)
    /\ ~Lookup(m_input_args, n, a)
    /\ Lookup(m_shader_input_defaults, n, a)
    /\ m_shader_input_defaults[n][a].m_type = type
    /\ type \in DefaultTypes

\* C22, as stated: when every in argument of the visited instances is connected, exposed
\* in range or has a default of its declared type, resolve(group) does not report an
\* argument without initialization, and the wrapper passes for each defaulted
\* argument a constant of the declared type.
C22_DefaultBecomesConstant ==
    (/\ GroupResolved /\ ExposuresInRange
     /\ \A n \in Visitable : \A k \in DOMAIN ArgsOf(n) :
           ~ArgsOf(n)[k].m_is_output =>
              \/ Lookup(m_shader_unit_connections, n, ArgsOf(n)[k].m_name)
              \/ Lookup(m_input_args, n, ArgsOf(n)[k].m_name)
              \/ TakesDefault(n, ArgsOf(n)[k].m_name, ArgsOf(n)[k].m_type))
    => /\ last.ret # ArgumentWithoutInitialization
       /\ last.ret = Succeed =>
             \A i \in DOMAIN WrapperCalls :
                LET n == WrapperCalls[i].inst IN
                \A k \in DOMAIN ArgsOf(n) :
                   TakesDefault(n, ArgsOf(n)[k].m_name, ArgsOf(n)[k].m_type) =>
                      /\ WrapperCalls[i].args[k].kind = "const"
                      /\ WrapperCalls[i].args[k].ty = llvm_type_from_arg_type(ArgsOf(n)[k].m_type)

\* C23, as stated: a compile lowers only what its own source declares: after a compile
\* whose source parsed, the function list of the driver holds the functions of that
\* source and nothing else, and so does the module made for a shader.
C23_CompileStartsEmpty ==
    (last.op = "compile" /\ hist.source.parses) =>
        /\ driver.m_functions = hist.source.functions
        /\ (hist.source.shader # "" /\ hist.source.closures) =>
              ModuleContent(heap, tpl[last.target].m_module).functions = hist.source.functions

\* the unit templates the instances of the last resolve(group) refer to
TemplatesOfGroup == { last.pre_units[n].m_shader_unit_template : n \in DOMAIN last.pre_units }

\* C24: a resolve(group) that got past the declarations has created exactly one
\* prototype for each unit template its instances refer to, whatever their names,
\* their number and the order in which the units were iterated.
C24_OnePrototypePerTemplate ==
    (GroupResolved /\ last.ret = Succeed) =>
        /\ ModuleContent(heap, tpl[GroupId].m_module).protos = TemplatesOfGroup
        /\ ModuleContent(heap, tpl[GroupId].m_module).created = Cardinality(TemplatesOfGroup)

\* C24 witness: a group with three instances of two templates resolved
C24_Witness ==
    /\ GroupResolved /\ last.ret = Succeed
    /\ Cardinality(DOMAIN last.pre_units) = 3
    /\ Cardinality(TemplatesOfGroup) = 2
    /\ ModuleContent(heap, tpl[GroupId].m_module).created = 2

\* C26, as stated: in the wrapper of a successful resolve(group) the call of every
\* instance goes to the prototype declared for the template of that instance.
C26_CalleeIsOwnPrototype ==
    (GroupResolved /\ last.ret = Succeed) =>
        \A i \in DOMAIN WrapperCalls :
           /\ WrapperCalls[i].callee # ""
           /\ WrapperCalls[i].callee = last.pre_units[WrapperCalls[i].inst].m_shader_unit_template

\* the regions, as pairs of a thread and a depth, that node n is registered with
RegionsOf(n) ==
    { r \in Threads \X (1..MaxDepth) : r[2] \in DOMAIN arena.stack[r[1]] /\ n \in arena.stack[r[1]][r[2]] }

\* C25: a node is registered with at most one region of all the stacks; a node made
\* while its thread has a region is registered with the innermost region of that
\* thread; leaving a region takes the innermost region off the stack and
\* leaves the enclosing regions as they were, their nodes registered and alive.
C25_OneRegionPerNode ==
    /\ \A n \in DOMAIN arena.nodes : Cardinality(RegionsOf(n)) <= 1
    /\ (arena.last.op = "track" /\ arena.last.pre_stack # <<>>) =>
          /\ Len(arena.stack[arena.last.thread]) = Len(arena.last.pre_stack)
          /\ RegionsOf(arena.last.ptr) = { <<arena.last.thread, Len(arena.last.pre_stack)>> }
    /\ arena.last.op = "leave" =>
          /\ arena.last.region = arena.last.pre_stack[Len(arena.last.pre_stack)]
          /\ arena.stack[arena.last.thread]
                = SubSeq(arena.last.pre_stack, 1, Len(arena.last.pre_stack) - 1)
          /\ \A i \in DOMAIN arena.stack[arena.last.thread] :
                \A n \in arena.stack[arena.last.thread][i] :
                   n \notin arena.last.region /\ arena.nodes[n].alive

\* C25 witness: an inner region with a node was left while the enclosing region of
\* the same thread holds another node
C25_Witness ==
    /\ arena.last.op = "leave" /\ arena.last.region # {}
    /\ Len(arena.last.pre_stack) = 2
    /\ arena.stack[arena.last.thread][1] # {}

\* C27, as stated: whatever resolve(group) calls were made, a root function the group
\* template records is a function of the module the template holds now, and a
\* resolve(instance) that returns Succeed started from such a pair.
C27_RootFunctionInCurrentModule ==
    last.ret # Crash =>
        /\ tpl[GroupId].m_llvm_function # NullFunction =>
              tpl[GroupId].m_llvm_function.mod = tpl[GroupId].m_module
        /\ (last.op = "resolve_instance" /\ last.target = GroupId /\ last.ret = Succeed) =>
              last.pre_tpl.m_llvm_function.mod = last.pre_tpl.m_module

\* C28, as stated: whenever resolve(instance) returns Succeed the instance holds an
\* engine and a function pointer that is not zero, and a resolve(instance) whose
\* engine could not be made does not end in a dereference of the missing engine.
C28_SucceedMeansCallable ==
    last.op = "resolve_instance" =>
        /\ last.ret = Succeed =>
              /\ ~inst[last.instance].m_execution_engine.null
              /\ inst[last.instance].m_function_pointer # 0
        /\ ~(/\ last.ret = Crash
             /\ inst[last.instance].m_execution_engine.null
             /\ ~last.pre_inst.m_execution_engine.null)

\* C29, as stated: no thread is copying the closure module while another thread holds
\* the register's mutex to declare a closure that is not registered yet.
C29_NoCloneWhileDeclaring ==
    \A t \in Threads : \A o \in Threads \ {t} :
        ~(/\ reg.pc[t] = "locked"
          /\ reg.arg[t].size > 0
          /\ reg.arg[t].name \notin DOMAIN reg.m_closures
          /\ reg.pc[o] = "cloning")

\* every connection of a visited instance reads an out argument that has a slot
SlotsRecorded ==
    \A n \in Visitable :
       n \in DOMAIN m_shader_unit_connections =>
          \A a \in DOMAIN m_shader_unit_connections[n] :
             LET source == m_shader_unit_connections[n][a] IN
             IsOutArg(source[1], source[2]) /\ ~Lookup(m_output_args, source[1], source[2])

\* an exposure of an argument of a visited instance names no argument of the group
ExposurePastEnd ==
    \E n \in Visitable :
       \/ n \in DOMAIN m_input_args /\ \E a \in DOMAIN m_input_args[n] :
             m_input_args[n][a] >= Len(last.pre_tpl.m_exposed_args)
       \/ n \in DOMAIN m_output_args /\ \E a \in DOMAIN m_output_args[n] :
             m_output_args[n][a] >= Len(last.pre_tpl.m_exposed_args)

\* C30, as stated: a resolve(group) of a group with an exposure whose index is not
\* smaller than the number of the group's arguments fails with a status: it neither
\* succeeds nor reads past the end of the wrapper's arguments.
C30_ExposureIndexChecked ==
    (GroupResolved /\ SlotsRecorded /\ ExposurePastEnd) => last.ret \notin {Succeed, Crash}

====
